---- MODULE Spec2Model ----
(***************************************************************************)
(* A model of src/app.py: the Streamlit script that builds a hybrid        *)
(* knowledge graph around a seed label from a custom hierarchy file,       *)
(* Wikidata, ConceptNet and a chat-completion model, and then renders and  *)
(* exports it.  One Build click runs main -> build_graph -> draw_pyvis;    *)
(* build_graph is cut at every call of an external service, because that   *)
(* is where an exception can leave it.                                     *)
(***************************************************************************)
EXTENDS Integers, Sequences, FiniteSets, TLC

\* ------------------------------------------------------------------ bounds
\* Builds (clicks of "Build Graph") in one process.
MaxRuns == 2
\* Items the services hand the process in total: the sum of the lengths of
\* all their fresh (uncached) responses.
MaxItems == 3
\* Rows of custom_hierarchy.csv.
MaxCustom == 1

\* ------------------------------------------------------------ configuration
\* The sidebar inputs (app.py 26-31).  The text of the seed and the limits
\* are fixed to one value of their widget's range; sub_depth is a variable.
seed == "s"
tax_lim == 5
sem_lim == 5
gpt_seed == 5
gpt_rel == 2
SubDepths == 1..2

\* Node identifiers are labels.  "s" is the seed; the other labels are what
\* the file and the services can name (they can name the seed too).  The
\* code treats every label but the seed alike, so the inputs are enumerated
\* up to renaming: the labels are first named in the order of OtherLabels.
OtherLabels == <<"a", "b", "c", "d">>
Labels == {seed} \cup {OtherLabels[i] : i \in 1..Len(OtherLabels)}

ONTOLOGY == [hierarchy_predicates   |-> {"P279", "P31"},
             association_predicates |-> {"P361", "P527", "P921"}]
\* The predicates the modelled SPARQL service answers with: one of each class.
RowProps == {"P279", "P361"}

None == "None"
QIDs == {"Q1"}

\* With the first k of OtherLabels named so far: the labels an input can
\* name next, the count after it named x, and the lists of at most n labels.
Nameable(k) ==
    {seed} \cup {OtherLabels[i] : i \in 1..(IF k < Len(OtherLabels) THEN k + 1 ELSE k)}

NamedWith(k, x) == IF x \in Nameable(k) \ Nameable(k - 1) /\ x # seed THEN k + 1 ELSE k

RECURSIVE NamedAfter(_, _)
NamedAfter(k, l) ==
    IF l = <<>> THEN k ELSE NamedAfter(NamedWith(k, Head(l)), Tail(l))

RECURSIVE LabelListsFrom(_, _)
LabelListsFrom(k, n) ==
    IF n <= 0 THEN {<<>>}
    ELSE {<<>>} \cup UNION {{<<x>> \o t : t \in LabelListsFrom(NamedWith(k, x), n - 1)} :
                              x \in Nameable(k)}

\* ------------------------------------------------------------------- graph
\* nx.Graph(): nodes in insertion order, an attribute dict per node, and
\* undirected edges.  keys is the set of attribute names the dict holds: a
\* node that add_edge creates by itself has an empty dict, and bare records
\* the nodes that came to be that way.
EmptyGraph == [order |-> <<>>, attr |-> <<>>, edges |-> {}, bare |-> {}]

Attrs(label, rel, depth) ==
    [keys |-> {"label", "rel", "depth"}, label |-> label, rel |-> rel, depth |-> depth]

NoAttrs == [keys |-> {}, label |-> None, rel |-> None, depth |-> 0]

HasNode(g, n) == n \in DOMAIN g.attr

\* G.add_node(n, **attrs): a new node is appended; an existing node's dict
\* is updated with the attributes given (all three, at every call site).
AddNode(g, n, a) ==
    IF HasNode(g, n)
    THEN [g EXCEPT !.attr = [m \in DOMAIN g.attr |-> IF m = n THEN a ELSE g.attr[m]]]
    ELSE [g EXCEPT !.order = Append(g.order, n), !.attr = (n :> a) @@ g.attr]

AddBare(g, n) ==
    IF HasNode(g, n) THEN g
    ELSE [AddNode(g, n, NoAttrs) EXCEPT !.bare = @ \cup {n}]

\* G.add_edge(u, v): endpoints that are no nodes yet are created, bare.
AddEdge(g, u, v) ==
    [AddBare(AddBare(g, u), v) EXCEPT !.edges = @ \cup {{u, v}}]

\* data.get("rel") and data.get("depth", 0) on a node's attribute dict.
GetRel(a) == IF "rel" \in a.keys THEN a.rel ELSE None
GetDepth(a) == IF "depth" \in a.keys THEN a.depth ELSE 0

\* ------------------------------------------------------------------- state
VARIABLES
    pc,         \* where the script is: idle, in build_graph, returned, failed
    G,          \* build_graph's graph
    custom,     \* the rows of custom_hierarchy.csv, as load_custom_hierarchy reads them
    sub_depth,  \* the "Subtopic depth" slider
    memo,       \* st.cache_data: per helper, its arguments -> its cached result
    runs,       \* builds started so far
    received,   \* items received from the services so far
    named,      \* how many of OtherLabels the file and the services named so far
    qid,        \* build_graph's qid
    wrels,      \* the rows of wrels the Wikidata loop has still to handle
    todo,       \* the nodes of list(G.nodes()) the last loop has still to visit
    raised,     \* the helper whose exception left build_graph, or None
    rendered,   \* whether the current run exported and rendered a graph
    returned,   \* the graphs the builds returned so far, in order
    issued,     \* the helpers called by the current build
    expanded,   \* the nodes the last loop fetched neighbours for (with their
                \* depth then), in order
    snapshot,   \* the nodes of the graph when the last loop started
    last        \* the last fetch handled: helper, limit, nodes it created

vars == <<pc, G, custom, sub_depth, memo, runs, received, named, qid, wrels, todo,
          raised, rendered, returned, issued, expanded, snapshot, last>>

\* ---------------------------------------------------------------- helpers
\* load_custom_hierarchy: the (parent, child) pairs of the rows read.
CustomFiles ==
    {[i \in 1..(Len(l) \div 2) |-> <<l[2 * i - 1], l[2 * i]>>] :
        l \in {m \in LabelListsFrom(0, 2 * MaxCustom) : Len(m) % 2 = 0}}

RECURSIVE Flat(_)
Flat(rows) == IF rows = <<>> THEN <<>> ELSE <<Head(rows)[1], Head(rows)[2]>> \o Flat(Tail(rows))

\* st.cache_data: a call whose arguments are cached returns the cached
\* value; any other call runs the function and caches what it returns.  An
\* exception is not a return value: nothing is cached.
EmptyMemo == [lookup_qid |-> <<>>, get_wikidata_relations |-> <<>>,
              get_conceptnet_related |-> <<>>, get_gpt_related |-> <<>>,
              classify_edge_with_gpt |-> <<>>]

\* A cache that never finds an entry.
MemoNeverHit(f, key) == FALSE

MemoHit(f, key) == key \in DOMAIN f

MemoStore(f, key, value) == (key :> value) @@ f

\* What a call can return: the cached value, or one of the fresh ones.
Returns(f, key, fresh) == IF MemoHit(f, key) THEN {f[key]} ELSE fresh

Cost(f, key, value) == IF MemoHit(f, key) THEN 0 ELSE Len(value)

Room == MaxItems - received

\* lookup_qid: the id of the first hit, or None when there is no hit or the
\* request fails (the except clause).
LookupResults == QIDs \cup {None}

\* get_wikidata_relations: (property, object label) per binding.
WikidataResults ==
    UNION {{[i \in 1..Len(l) |-> <<p[i], l[i]>>] : p \in [1..Len(l) -> RowProps]} :
              l \in LabelListsFrom(named, Room)}

Objects(rows) == [i \in 1..Len(rows) |-> rows[i][2]]

\* get_conceptnet_related, get_gpt_related: the list of labels returned,
\* whatever its length: the limit goes into the request or the prompt and the
\* result is not cut.  The labels are the strings as returned, that is after
\* "_" became " " (ConceptNet) and after bullets were stripped and empty
\* lines dropped (GPT).
LabelLists == LabelListsFrom(named, Room)

\* classify_edge_with_gpt: the model's answer, as words.
Answers == {<<"subtopic">>, <<"related">>}

Classify(ans) ==
    IF \E i \in 1..Len(ans) : ans[i] = "subtopic" THEN "hierarchy" ELSE "association"

\* ----------------------------------------------------- build_graph's loops
\* A custom row whose child is left to add_edge.
CustomRowNoChild(g, parent, child) ==
    LET g1 == IF ~HasNode(g, parent)
              THEN AddNode(g, parent, Attrs(parent, "seed", 0))
              ELSE g
    IN  AddEdge(g1, parent, child)

\* One row of the custom hierarchy (app.py 145-149).
CustomRow(g, parent, child) ==
    LET g1 == IF ~HasNode(g, parent)
              THEN AddNode(g, parent, Attrs(parent, "seed", 0))
              ELSE g
        g2 == AddNode(g1, child, Attrs(child, "custom", 1))
    IN  AddEdge(g2, parent, child)

RECURSIVE CustomLoop(_, _)
CustomLoop(g, rows) ==
    IF rows = <<>> THEN g
    ELSE CustomLoop(CustomRow(g, Head(rows)[1], Head(rows)[2]), Tail(rows))

\* A neighbour of the seed (app.py 164-165, 170-171, 175-176).
SeedNeighbour(g, lbl, rel) ==
    AddEdge(AddNode(g, lbl, Attrs(lbl, rel, 1)), seed, lbl)

RECURSIVE SeedLoop(_, _, _)
SeedLoop(g, lbls, rel) ==
    IF lbls = <<>> THEN g
    ELSE SeedLoop(SeedNeighbour(g, Head(lbls), rel), Tail(lbls), rel)

\* The rel values whose nodes the last loop expands (app.py 181).
ExpandRels == {"related", "association", "custom"}

\* A neighbour of an expanded node (app.py 183-185).  data is the node's
\* attribute dict itself, so its depth is read anew for every sub.
SubNeighbour(g, node, sub) ==
    AddEdge(AddNode(g, sub, Attrs(sub, "gpt_related", GetDepth(g.attr[node]) + 1)),
            node, sub)

RECURSIVE SubLoop(_, _, _)
SubLoop(g, node, subs) ==
    IF subs = <<>> THEN g
    ELSE SubLoop(SubNeighbour(g, node, Head(subs)), node, Tail(subs))

\* A work list that holds a node once per edge that reaches it.
RECURSIVE PerEdge(_, _)
PerEdge(g, ns) ==
    IF ns = <<>> THEN <<>>
    ELSE LET n == Head(ns)
             d == Cardinality({e \in g.edges : n \in e})
         IN  [i \in 1..(IF d > 1 THEN d ELSE 1) |-> n] \o PerEdge(g, Tail(ns))

NodeListPerEdge(g) == PerEdge(g, g.order)

\* list(G.nodes()) (app.py 179): the nodes at that moment, each once, in
\* insertion order.
NodeList(g) == g.order

Created(g, h) == Len(h.order) - Len(g.order)

\* What main gets from build_graph: the nodes with their attributes, and
\* the edges.
Result(g) == [attr |-> g.attr, edges |-> g.edges]

\* What the last loop knows of a node when it fetches for it.
Visit(g, node) == [node |-> node, depth |-> GetDepth(g.attr[node])]

NoFetch == [fn |-> None, limit |-> 0, created |-> 0]

\* --------------------------------------------------------------------- Init
Init ==
    /\ pc = "idle"
    /\ G = EmptyGraph
    /\ custom \in CustomFiles
    /\ sub_depth \in SubDepths
    /\ memo = EmptyMemo
    /\ runs = 0
    /\ received = 0
    /\ named = NamedAfter(0, Flat(custom))
    /\ qid = None
    /\ wrels = <<>>
    /\ todo = <<>>
    /\ raised = None
    /\ rendered = FALSE
    /\ returned = <<>>
    /\ issued = {}
    /\ expanded = <<>>
    /\ snapshot = {}
    /\ last = NoFetch

\* ------------------------------------------------------------------ actions
\* The Build button: main calls build_graph, which makes the graph, loads
\* the custom hierarchy, adds the seed and the custom rows (app.py 214-216,
\* 138-149).
StartBuild ==
    /\ pc \in {"idle", "failed", "done"}
    /\ runs < MaxRuns
    /\ runs' = runs + 1
    /\ G' = CustomLoop(AddNode(EmptyGraph, seed, Attrs(seed, "seed", 0)), custom)
    /\ pc' = "lookup"
    /\ qid' = None /\ wrels' = <<>> /\ todo' = <<>>
    /\ raised' = None /\ rendered' = FALSE
    /\ issued' = {} /\ expanded' = <<>> /\ snapshot' = {} /\ last' = NoFetch
    /\ UNCHANGED <<custom, sub_depth, memo, received, named, returned>>

\* A build that asks Wikidata whatever lookup_qid returned.
AfterLookupNoTest(r) == "wikidata"

\* if qid: (app.py 153).
AfterLookup(r) == IF r # None THEN "wikidata" ELSE "conceptnet"

\* qid = lookup_qid(seed); if qid: ... (app.py 152-153).
Lookup ==
    /\ pc = "lookup"
    /\ \E r \in Returns(memo.lookup_qid, <<seed>>, LookupResults) :
          /\ qid' = r
          /\ memo' = [memo EXCEPT !.lookup_qid = MemoStore(@, <<seed>>, r)]
          /\ pc' = AfterLookup(r)
    /\ issued' = issued \cup {"lookup_qid"}
    /\ UNCHANGED <<G, custom, sub_depth, runs, received, named, wrels, todo, raised,
                   rendered, returned, expanded, snapshot, last>>

\* An exception of a helper leaves build_graph and main: no try is around
\* any of the calls, and the script run ends there.
Abort(fn) ==
    /\ pc' = "failed"
    /\ raised' = fn
    /\ issued' = issued \cup {fn}
    /\ UNCHANGED <<G, custom, sub_depth, memo, runs, received, named, qid, wrels, todo,
                   rendered, returned, expanded, snapshot, last>>

\* wrels = get_wikidata_relations(qid, ...) (app.py 154-158).
Wikidata ==
    /\ pc = "wikidata"
    /\ \/ \E r \in Returns(memo.get_wikidata_relations, <<qid>>, WikidataResults) :
             /\ wrels' = r
             /\ memo' = [memo EXCEPT !.get_wikidata_relations = MemoStore(@, <<qid>>, r)]
             /\ received' = received + Cost(memo.get_wikidata_relations, <<qid>>, r)
             /\ named' = NamedAfter(named, Objects(r))
             /\ pc' = IF r = <<>> THEN "conceptnet" ELSE "wikidata_loop"
             /\ issued' = issued \cup {"get_wikidata_relations"}
             /\ last' = [fn |-> "get_wikidata_relations", limit |-> tax_lim, created |-> 0]
             /\ UNCHANGED <<G, custom, sub_depth, runs, qid, todo, raised, rendered,
                            returned, expanded, snapshot>>
       \/ /\ ~MemoHit(memo.get_wikidata_relations, <<qid>>)
          /\ Abort("get_wikidata_relations")

\* One pass of the loop over wrels (app.py 159-165).
WikidataRow ==
    /\ pc = "wikidata_loop"
    /\ LET prop == Head(wrels)[1]
           obj  == Head(wrels)[2]
           key  == <<seed, obj>>
           next == IF Tail(wrels) = <<>> THEN "conceptnet" ELSE "wikidata_loop"
       IN  IF prop \in ONTOLOGY.hierarchy_predicates
           THEN \/ \E rtype \in Returns(memo.classify_edge_with_gpt, key,
                                         {Classify(ans) : ans \in Answers}) :
                      /\ G' = SeedNeighbour(G, obj, rtype)
                      /\ memo' = [memo EXCEPT
                                    !.classify_edge_with_gpt = MemoStore(@, key, rtype)]
                      /\ issued' = issued \cup {"classify_edge_with_gpt"}
                      /\ last' = [last EXCEPT !.created = @ + Created(G, G')]
                      /\ wrels' = Tail(wrels)
                      /\ pc' = next
                      /\ UNCHANGED <<custom, sub_depth, runs, received, named, qid, todo,
                                     raised, rendered, returned, expanded, snapshot>>
                \/ /\ ~MemoHit(memo.classify_edge_with_gpt, key)
                   /\ Abort("classify_edge_with_gpt")
           ELSE /\ G' = SeedNeighbour(G, obj, "association")
                /\ last' = [last EXCEPT !.created = @ + Created(G, G')]
                /\ wrels' = Tail(wrels)
                /\ pc' = next
                /\ UNCHANGED <<custom, sub_depth, memo, runs, received, named, qid, todo,
                               raised, rendered, returned, issued, expanded, snapshot>>

\* sems = get_conceptnet_related(seed, sem_lim) and its loop (app.py 168-171).
ConceptNet ==
    /\ pc = "conceptnet"
    /\ LET key == <<seed, sem_lim>> IN
       \/ \E r \in Returns(memo.get_conceptnet_related, key, LabelLists) :
             /\ G' = SeedLoop(G, r, "related")
             /\ memo' = [memo EXCEPT !.get_conceptnet_related = MemoStore(@, key, r)]
             /\ received' = received + Cost(memo.get_conceptnet_related, key, r)
             /\ named' = NamedAfter(named, r)
             /\ pc' = "gpt_seed"
             /\ issued' = issued \cup {"get_conceptnet_related"}
             /\ last' = [fn |-> "get_conceptnet_related", limit |-> sem_lim,
                         created |-> Created(G, G')]
             /\ UNCHANGED <<custom, sub_depth, runs, qid, wrels, todo, raised,
                            rendered, returned, expanded, snapshot>>
       \/ /\ ~MemoHit(memo.get_conceptnet_related, key)
          /\ Abort("get_conceptnet_related")

\* The loop over get_gpt_related(seed, gpt_seed), and then the evaluation
\* of list(G.nodes()) that starts the last loop (app.py 174-179).
GptSeed ==
    /\ pc = "gpt_seed"
    /\ LET key == <<seed, gpt_seed>> IN
       \/ \E r \in Returns(memo.get_gpt_related, key, LabelLists) :
             /\ G' = SeedLoop(G, r, "gpt_seed")
             /\ memo' = [memo EXCEPT !.get_gpt_related = MemoStore(@, key, r)]
             /\ received' = received + Cost(memo.get_gpt_related, key, r)
             /\ named' = NamedAfter(named, r)
             /\ todo' = NodeList(G')
             /\ snapshot' = DOMAIN G'.attr
             /\ pc' = "expand"
             /\ issued' = issued \cup {"get_gpt_related"}
             /\ last' = [fn |-> "get_gpt_related", limit |-> gpt_seed,
                         created |-> Created(G, G')]
             /\ UNCHANGED <<custom, sub_depth, runs, qid, wrels, raised, rendered,
                            returned, expanded>>
       \/ /\ ~MemoHit(memo.get_gpt_related, key)
          /\ Abort("get_gpt_related")

\* One pass of the last loop for a node whose rel asks for expansion
\* (app.py 180-185).
ExpandNode ==
    /\ pc = "expand"
    /\ todo # <<>>
    /\ GetRel(G.attr[Head(todo)]) \in ExpandRels
    /\ LET node == Head(todo)
           key  == <<node, gpt_rel>>
       IN  \/ \E r \in Returns(memo.get_gpt_related, key, LabelLists) :
                 /\ G' = SubLoop(G, node, r)
                 /\ memo' = [memo EXCEPT !.get_gpt_related = MemoStore(@, key, r)]
                 /\ received' = received + Cost(memo.get_gpt_related, key, r)
                 /\ named' = NamedAfter(named, r)
                 /\ todo' = Tail(todo)
                 /\ expanded' = Append(expanded, Visit(G, node))
                 /\ last' = [fn |-> "get_gpt_related", limit |-> gpt_rel,
                             created |-> Created(G, G')]
                 /\ UNCHANGED <<pc, custom, sub_depth, runs, qid, wrels, raised,
                                rendered, returned, issued, snapshot>>
           \/ /\ ~MemoHit(memo.get_gpt_related, key)
              /\ expanded' = Append(expanded, Visit(G, node))
              /\ pc' = "failed"
              /\ raised' = "get_gpt_related"
              /\ UNCHANGED <<G, custom, sub_depth, memo, runs, received, named, qid, wrels,
                             todo, rendered, returned, issued, snapshot, last>>

\* One pass of the last loop for any other node (app.py 180-181).
SkipNode ==
    /\ pc = "expand"
    /\ todo # <<>>
    /\ GetRel(G.attr[Head(todo)]) \notin ExpandRels
    /\ todo' = Tail(todo)
    /\ UNCHANGED <<pc, G, custom, sub_depth, memo, runs, received, named, qid, wrels,
                   raised, rendered, returned, issued, expanded, snapshot, last>>

\* return G (app.py 187, 216).
Return ==
    /\ pc = "expand"
    /\ todo = <<>>
    /\ pc' = "returned"
    /\ returned' = Append(returned, Result(G))
    /\ UNCHANGED <<G, custom, sub_depth, memo, runs, received, named, qid, wrels, todo,
                   raised, rendered, issued, expanded, snapshot, last>>

\* The rest of main: the counts, the two CSV exports, draw_pyvis
\* (app.py 217-248).
Render ==
    /\ pc = "returned"
    /\ rendered' = TRUE
    /\ pc' = "done"
    /\ UNCHANGED <<G, custom, sub_depth, memo, runs, received, named, qid, wrels, todo,
                   raised, returned, issued, expanded, snapshot, last>>

Next ==
    \/ StartBuild
    \/ Lookup
    \/ Wikidata
    \/ WikidataRow
    \/ ConceptNet
    \/ GptSeed
    \/ ExpandNode
    \/ SkipNode
    \/ Return
    \/ Render

Spec == Init /\ [][Next]_vars

\* ------------------------------------------------------------------ claims
Nodes == DOMAIN G.attr
Built == pc \in {"returned", "done"}
Fetchers == {"get_wikidata_relations", "get_conceptnet_related", "get_gpt_related",
             "classify_edge_with_gpt"}

\* C1: a failure of a relation fetcher called by build_graph never aborts
\* the build; the build goes on without that branch and returns a graph.
C1_FetcherFailureNeverAborts == raised \in Fetchers => pc # "failed"

\* C2: every node of the graph build_graph returns has a depth of at most
\* the configured sub_depth.
C2_DepthWithinSubDepth ==
    Built => \A n \in Nodes : GetDepth(G.attr[n]) <= sub_depth

\* C3: within a build, a node once added keeps its label, rel and depth,
\* and the seed keeps rel = seed and depth = 0.
C3_SeedKept == pc # "idle" => G.attr[seed] = Attrs(seed, "seed", 0)
C3_NodeKept == pc' # "lookup" => \A n \in Nodes : G'.attr[n] = G.attr[n]
C3_ReAddIsNoOp == []C3_SeedKept /\ [][C3_NodeKept]_vars

\* C4: after a resolution miss on the seed no ConceptNet or GPT fetch is
\* issued and nothing is rendered or exported.
Miss == "lookup_qid" \in issued /\ qid = None
C5_NoImplicitNode ==
    /\ G.bare = {}
    /\ \A n \in Nodes : G.attr[n].keys = {"label", "rel", "depth"}
    /\ \A e \in G.edges : e \subseteq Nodes

C5_Witness ==
    /\ Built
    /\ custom # <<>>
    /\ {custom[1][1], custom[1][2]} \in G.edges
    /\ expanded # <<>>
    /\ \E e \in G.edges : seed \in e /\ e # {custom[1][1], custom[1][2]}
    /\ \E e \in G.edges : seed \notin e /\ e # {custom[1][1], custom[1][2]}

\* C6: no fetcher call adds more neighbours to the graph than the limit
\* configured for its source.
C6_FetchWithinLimit == last.created <= last.limit

\* C7: a build re-run on unchanged inputs with memoized fetchers returns a
\* graph with the same nodes, edges and node attributes as the first; and a
\* memo entry, once filled, keeps its value.
SameAsFirst == \A i \in 1..Len(returned) : returned[i] = returned[1]
MemoKept ==
    \A fn \in DOMAIN memo : \A key \in DOMAIN memo[fn] :
        key \in DOMAIN memo'[fn] /\ memo'[fn][key] = memo[fn][key]
C7_RerunSameGraph == []SameAsFirst /\ [][MemoKept]_vars

C7_Witness ==
    /\ Len(returned) >= 2
    /\ pc = "returned"
    /\ expanded # <<>>
    /\ Cardinality(Nodes) >= 3
    /\ Cardinality(returned[1].edges) >= 2

\* C8: the last loop fetches neighbours for a node only if the node's
\* depth is below sub_depth.
C8_ExpandOnlyBelowMaxDepth ==
    \A i \in 1..Len(expanded) : expanded[i].depth < sub_depth

\* C9: build_graph terminates (a build is never stuck before its end, and
\* each of its steps moves it to a later place of the code or shortens the
\* list its loop walks); the expansion fetch is issued at most once per node
\* of a build, and never for a node the last loop introduced.
ExpandedOnce ==
    \A i, j \in 1..Len(expanded) : expanded[i].node = expanded[j].node => i = j
ExpandedFromSnapshot ==
    \A i \in 1..Len(expanded) : expanded[i].node \in snapshot
Stopped == pc \in {"idle", "done", "failed"}
Place ==
    [lookup |-> 1, wikidata |-> 2, wikidata_loop |-> 3, conceptnet |-> 4,
     gpt_seed |-> 5, expand |-> 6, returned |-> 7, done |-> 8, failed |-> 8]
Progress ==
    runs' = runs =>
        \/ Place[pc'] > Place[pc]
        \/ pc = "expand" /\ pc' = "expand" /\ Len(todo') < Len(todo)
        \/ pc = "wikidata_loop" /\ pc' = "wikidata_loop" /\ Len(wrels') < Len(wrels)
C9_TerminatesExpandingOnce ==
    /\ [](ExpandedOnce /\ ExpandedFromSnapshot /\ (Stopped \/ ENABLED Next))
    /\ [][Progress]_vars

C9_Witness ==
    /\ Built
    /\ Len(expanded) >= 2
    /\ Nodes # snapshot
    /\ \E i \in 1..Len(expanded) : {expanded[i].node, seed} \in G.edges
    /\ \E i \in 1..Len(expanded) : G.attr[expanded[i].node].rel = "gpt_related"

\* C10: in the graph build_graph returns, every node's depth is its hop
\* distance from the seed.
Reach(S) == S \cup {m \in Nodes : \E n \in S : {n, m} \in G.edges}
RECURSIVE HopsFrom(_, _, _)
HopsFrom(S, n, d) ==
    IF n \in S THEN {d}
    ELSE IF Reach(S) = S THEN {}
    ELSE HopsFrom(Reach(S), n, d + 1)
Hops(n) == HopsFrom({seed}, n, 0)
C10_DepthIsHopDistance ==
    Built => \A n \in Nodes : Hops(n) = {GetDepth(G.attr[n])}

====
